---- MODULE Spec2Model ----
(***************************************************************************)
(* browser-gopher: the unified store (pkg/persistence), the search         *)
(* provider (pkg/search), the extractor registry and the Chromium          *)
(* extractor (pkg/extractors) and the populate command (cmd/populate.go).  *)
(*                                                                         *)
(* Timestamps are represented by their Unix seconds (time.Time values in   *)
(* the program all come from time.Unix(ts, 0) or from a second-resolution  *)
(* SQLite datetime string).  A nil pointer is the empty sequence Nil, a    *)
(* non-nil pointer to v is <<v>>.  SQL NULL text is the string NULL.       *)
(***************************************************************************)
EXTENDS Integers, Sequences, FiniteSets, TLC

VARIABLES
    urls,        \* table "urls": set of rows
    urls_meta,   \* table "urls_meta": set of rows
    metaSeq,     \* sqlite_sequence entry of urls_meta (AUTOINCREMENT)
    visits,      \* table "visits": set of rows
    visitSeq,    \* sqlite_sequence entry of visits (AUTOINCREMENT)
    index,       \* the document index: set of document ids (url_md5)
    calls,       \* number of direct store calls made so far (StoreSpec, ReadSpec)
    last,        \* the last operation performed and its arguments/result
    fs,          \* the machine: candidate directories, database files, their contents
    pc,          \* position of the populate command: "idle", "loop", "index", "exit"
    flags,       \* --browser, --latest, --build-index of the current run
    extractors,  \* the list BuildExtractorList returned to the current run
    i,           \* 1-based position of the range loop over extractors
    errs,        \* errs of the current run
    exitCode,    \* exit status of the last finished run (-1: none yet / running)
    runs,        \* number of populate runs started
    tried,       \* positions of extractors whose import was attempted in this run
    lastImport,  \* the last import attempted: extractor, mode, cursor, error
    writers      \* extractors importing side by side: each one's writes and progress

storeVars == <<urls, urls_meta, metaSeq, visits, visitSeq>>
runVars == <<pc, flags, extractors, i, errs, exitCode, runs, tried, lastImport>>
vars == <<urls, urls_meta, metaSeq, visits, visitSeq, index, calls, last, fs,
          pc, flags, extractors, i, errs, exitCode, runs, tried, lastImport, writers>>

-----------------------------------------------------------------------------
(* Bounds *)
MaxTime == 2
MaxCalls == 3
MaxRuns == 2

-----------------------------------------------------------------------------
(* Values *)
NULL == "NULL"
Nil == <<>>
Ptr(v) == <<v>>

Urls == {"u1", "u2"}
Titles == {NULL, "t1"}
Descriptions == {NULL, "d1"}
Times == 1..MaxTime
ExtractorNames == {"chrome", "firefox"}

\* util.HashMd5String: deterministic digest, distinct on the URLs of the model
HashMd5String(u) == "md5:" \o u

\* time.Time.Unix() and time.Unix(ts, 0) on second-resolution timestamps
Unix(t) == t
TimeUnix(ts) == ts

\* types.UrlRow, types.VisitRow, types.UrlMetaRow as passed by callers
UrlRows == [Url : Urls, Title : Titles, Description : Descriptions,
            LastVisit : {Nil} \cup {Ptr(t) : t \in Times}]
VisitRows == [Url : Urls, Datetime : Times, ExtractorName : ExtractorNames]
UrlMetaRows == [Url : Urls, IndexedAt : {Nil} \cup {Ptr(t) : t \in Times}]

-----------------------------------------------------------------------------
(* Schema (initSql) and the SQL conflict clauses *)

\* "urls" declared without its PRIMARY KEY and UNIQUE constraints: nothing collides
UrlsConflictsNoKey(tbl, new) == {}

\* "urls" with a UNIQUE constraint on title as well
UrlsConflictsByTitle(tbl, new) ==
    {r \in tbl : r.url_md5 = new.url_md5 \/ r.url = new.url \/ r.title = new.title}
\* rows of tbl that collide with row new on "urls" PRIMARY KEY(url_md5) or UNIQUE(url)
UrlsConflicts(tbl, new) == {r \in tbl : r.url_md5 = new.url_md5 \/ r.url = new.url}

\* rows of tbl that collide with new on "urls_meta" UNIQUE(url_md5)
MetaConflicts(tbl, new) == {r \in tbl : r.url_md5 = new.url_md5}

\* "visits" without the unique index visits_unique: nothing collides
VisitsConflictsNoIndex(tbl, new) == {}

\* the former unique index on (extractor_name, url_md5, visit_time)
VisitsConflictsPerExtractor(tbl, new) ==
    {r \in tbl : /\ r.url_md5 = new.url_md5
                 /\ r.visit_time = new.visit_time
                 /\ r.extractor_name = new.extractor_name}

\* the former unique index on url_md5 alone
VisitsConflictsByUrl(tbl, new) == {r \in tbl : r.url_md5 = new.url_md5}
\* rows of tbl that collide with new on the unique index visits_unique
VisitsConflicts(tbl, new) ==
    {r \in tbl : r.url_md5 = new.url_md5 /\ r.visit_time = new.visit_time}

-----------------------------------------------------------------------------
(* pkg/persistence *)

\* the row InsertUrl binds to its statement
UrlDbRow(row) ==
    LET lastVisit == IF row.LastVisit # Nil THEN Unix(row.LastVisit[1]) ELSE 0
        md5 == HashMd5String(row.Url)
    IN  [url_md5 |-> md5, url |-> row.Url, title |-> row.Title,
         description |-> row.Description, last_visit |-> lastVisit]

\* INSERT OR REPLACE INTO urls: the colliding rows are deleted, the new one inserted
InsertUrl(tbl, row) ==
    LET new == UrlDbRow(row)
    IN  (tbl \ UrlsConflicts(tbl, new)) \cup {new}

\* InsertUrlMeta binding the URL itself where its md5 belongs
InsertUrlMetaRawUrl(tbl, seq, row) ==
    LET indexed_at == IF row.IndexedAt # Nil THEN Unix(row.IndexedAt[1]) ELSE 0
        new == [id |-> seq + 1, url_md5 |-> row.Url, indexed_at |-> indexed_at]
    IN  [tbl |-> (tbl \ MetaConflicts(tbl, new)) \cup {new}, seq |-> seq + 1]
\* INSERT OR REPLACE INTO urls_meta(url_md5, indexed_at); id is AUTOINCREMENT
InsertUrlMeta(tbl, seq, row) ==
    LET md5 == HashMd5String(row.Url)
        indexed_at == IF row.IndexedAt # Nil THEN Unix(row.IndexedAt[1]) ELSE 0
        new == [id |-> seq + 1, url_md5 |-> md5, indexed_at |-> indexed_at]
    IN  [tbl |-> (tbl \ MetaConflicts(tbl, new)) \cup {new}, seq |-> seq + 1]

\* InsertVisit written with the OR REPLACE of the other two statements
InsertVisitOrReplace(tbl, seq, row) ==
    LET md5 == HashMd5String(row.Url)
        new == [id |-> seq + 1, url_md5 |-> md5, visit_time |-> Unix(row.Datetime),
                extractor_name |-> row.ExtractorName]
    IN  [tbl |-> (tbl \ VisitsConflicts(tbl, new)) \cup {new}, seq |-> seq + 1]
\* INSERT OR IGNORE INTO visits(url_md5, visit_time, extractor_name); id is AUTOINCREMENT
InsertVisit(tbl, seq, row) ==
    LET md5 == HashMd5String(row.Url)
        new == [id |-> seq + 1, url_md5 |-> md5, visit_time |-> Unix(row.Datetime),
                extractor_name |-> row.ExtractorName]
    IN  IF VisitsConflicts(tbl, new) # {}
        THEN [tbl |-> tbl, seq |-> seq]
        ELSE [tbl |-> tbl \cup {new}, seq |-> seq + 1]

\* the query without its WHERE clause
GetLatestTimeAnyExtractor(tbl, name) ==
    IF tbl = {}
    THEN [err |-> "sql.ErrNoRows", t |-> Nil]
    ELSE LET top == CHOOSE v \in tbl : \A w \in tbl : w.visit_time <= v.visit_time
         IN  [err |-> NULL, t |-> Ptr(TimeUnix(top.visit_time))]

\* the query with ORDER BY visit_time ASC
GetLatestTimeAscending(tbl, name) ==
    LET rows == {v \in tbl : v.extractor_name = name}
    IN  IF rows = {}
        THEN [err |-> "sql.ErrNoRows", t |-> Nil]
        ELSE LET top == CHOOSE v \in rows : \A w \in rows : v.visit_time <= w.visit_time
             IN  [err |-> NULL, t |-> Ptr(TimeUnix(top.visit_time))]

\* SELECT visit_time FROM visits WHERE extractor_name = ? ORDER BY visit_time DESC LIMIT 1
GetLatestTime(tbl, name) ==
    LET rows == {v \in tbl : v.extractor_name = name}
    IN  IF rows = {}
        THEN [err |-> "sql.ErrNoRows", t |-> Nil]
        ELSE LET top == CHOOSE v \in rows : \A w \in rows : w.visit_time <= v.visit_time
             IN  [err |-> NULL, t |-> Ptr(TimeUnix(top.visit_time))]

\* all orders in which the rows of a set can be delivered
Perms(S) ==
    {f \in [1..Cardinality(S) -> S] : \A a, b \in 1..Cardinality(S) : f[a] = f[b] => a = b}

\* rows.Scan into a types.UrlDbEntity; LastVisit stays nil when last_visit is 0
UrlDbEntity(r) ==
    [UrlMd5 |-> r.url_md5, Url |-> r.url, Title |-> r.title,
     Description |-> r.description,
     LastVisit |-> IF r.last_visit # 0 THEN Ptr(Unix(r.last_visit)) ELSE Nil]

\* UrlsById without its WHERE clause
UrlsByIdAnyRow(tbl, ids) ==
    {[urls |-> p, err |-> NULL] : p \in Perms({UrlDbEntity(r) : r \in tbl})}

\* UrlsById: SELECT ... FROM urls WHERE url_md5 IN (ids), no ORDER BY: the
\* matching rows, each once, in whatever order the database delivers them.
\* The set of results the call can return.
UrlsById(tbl, ids) ==
    LET match == {r \in tbl : \E k \in 1..Len(ids) : ids[k] = r.url_md5}
    IN  {[urls |-> p, err |-> NULL] : p \in Perms({UrlDbEntity(r) : r \in match})}

-----------------------------------------------------------------------------
(* pkg/search (BleveSearchProvider) *)

\* req.Size of SearchBleve
SearchSize == 100

\* the first k elements of a sequence
Take(s, k) == [j \in 1..(IF k < Len(s) THEN k ELSE Len(s)) |-> s[j]]

\* SearchBleve: some documents of the index match the query; Hits are the
\* first req.Size of them in relevance order, Total counts all of them.
\* The ranking is the index's own: any order of the matching documents.
SearchBleve(idx) ==
    {[Hits |-> Take(p, SearchSize), Total |-> Len(p)] :
        p \in UNION {Perms(T) : T \in SUBSET idx}}

\* SearchUrls: ids of the hits in hit order, then UrlsById(ids...) returned as
\* it came back.  The set of results the call can return.
SearchUrls(idx, tbl) ==
    UNION {{[ids |-> result.Hits, Urls |-> xs.urls, Count |-> result.Total,
             err |-> xs.err] : xs \in UrlsById(tbl, result.Hits)} :
           result \in SearchBleve(idx)}
(* pkg/extractors: the registry *)

ChromePath == "~/Library/Application Support/Google/Chrome/"
VivaldiPath == "~/Library/Application Support/Vivaldi"
FirefoxPath == "~/Library/Application Support/Firefox/Profiles/"
SafariPath == "~/Library/Safari/"

\* pathsToTry of BuildExtractorList, in its order
pathsToTry ==
    << [name |-> "chrome", path |-> ChromePath, findDBs |-> "FindChromiumDBs"],
       [name |-> "vivaldi", path |-> VivaldiPath, findDBs |-> "FindChromiumDBs"],
       [name |-> "firefox", path |-> FirefoxPath, findDBs |-> "FindFirefoxDBs"],
       [name |-> "safari", path |-> SafariPath, findDBs |-> "safari"] >>

\* x.findDBs(x.path) on machine m: the database files found, or an error.
\* FindChromiumDBs / FindFirefoxDBs walk the directory (m.walk); the safari
\* closure stats path + "History.db".
findDBs(m, x) ==
    IF x.findDBs = "safari"
    THEN IF (x.path \o "History.db") \in m.files
         THEN [dbs |-> <<x.path \o "History.db">>, err |-> NULL]
         ELSE [dbs |-> <<>>, err |-> "stat: no such file"]
    ELSE m.walk[x.path]

\* the range loop of BuildExtractorList over pathsToTry[k..]
RECURSIVE BuildFrom(_, _, _)
BuildFrom(m, k, result) ==
    IF k > Len(pathsToTry)
    THEN [list |-> result, err |-> NULL]
    ELSE LET x == pathsToTry[k]
         IN  IF m.stat[x.path] # "dir"
             THEN BuildFrom(m, k + 1, result)
             ELSE LET r == findDBs(m, x)
                  IN  IF r.err # NULL
                      THEN [list |-> <<>>, err |-> r.err]
                      ELSE BuildFrom(m, k + 1,
                               result \o [j \in 1..Len(r.dbs) |->
                                   [Name |-> x.name, HistoryDBPath |-> r.dbs[j]]])

\* BuildExtractorList returning the os.Stat failure of a candidate path
BuildExtractorListStrict(m) ==
    IF \E k \in 1..Len(pathsToTry) : m.stat[pathsToTry[k].path] # "dir"
    THEN [list |-> <<>>, err |-> "stat: no such file or directory"]
    ELSE BuildFrom(m, 1, <<>>)

BuildExtractorList(m) == BuildFrom(m, 1, <<>>)

-----------------------------------------------------------------------------
(* The machines of the model: which browsers are installed and what their    *)
(* history databases hold (as GetAllUrls / GetAllVisits return it).  The     *)
(* history databases do not change during a behaviour.                       *)

SrcUrl(u, t) == [Url |-> u, Title |-> t]
SrcVisit(u, t) == [Url |-> u, Datetime |-> t]

HistoryA == [urls |-> <<SrcUrl("u1", "t1")>>,
             visits |-> <<SrcVisit("u1", 1), SrcVisit("u1", MaxTime)>>]
HistoryB == [urls |-> <<SrcUrl("u2", NULL)>>,
             visits |-> <<SrcVisit("u2", 1), SrcVisit("u2", MaxTime)>>]
HistoryC == [urls |-> <<SrcUrl("u1", NULL), SrcUrl("u2", "t1")>>,
             visits |-> <<SrcVisit("u1", 1), SrcVisit("u2", MaxTime)>>]
\* a URL listed twice, visits not in time order
HistoryD == [urls |-> <<SrcUrl("u1", "t1"), SrcUrl("u1", NULL)>>,
             visits |-> <<SrcVisit("u1", MaxTime), SrcVisit("u1", 1)>>]
HistoryEmpty == [urls |-> <<>>, visits |-> <<>>]

NoWalk == [dbs |-> <<>>, err |-> NULL]

\* chrome with two profiles, firefox with one
Machine1 ==
    [stat |-> (ChromePath :> "dir" @@ VivaldiPath :> "absent" @@
               FirefoxPath :> "dir" @@ SafariPath :> "absent"),
     walk |-> (ChromePath :> [dbs |-> <<"Chrome/Default/History",
                                        "Chrome/Profile 1/History">>, err |-> NULL] @@
               VivaldiPath :> NoWalk @@
               FirefoxPath :> [dbs |-> <<"Firefox/places.sqlite">>, err |-> NULL]),
     files |-> {},
     db |-> ("Chrome/Default/History" :> HistoryA @@
             "Chrome/Profile 1/History" :> HistoryB @@
             "Firefox/places.sqlite" :> HistoryC)]

\* firefox first seen by the loop after chrome; safari present with its database
Machine2 ==
    [stat |-> (ChromePath :> "dir" @@ VivaldiPath :> "file" @@
               FirefoxPath :> "dir" @@ SafariPath :> "dir"),
     walk |-> (ChromePath :> [dbs |-> <<"Chrome/Default/History">>, err |-> NULL] @@
               VivaldiPath :> NoWalk @@
               FirefoxPath :> [dbs |-> <<"Firefox/places.sqlite">>, err |-> NULL]),
     files |-> {SafariPath \o "History.db"},
     db |-> ("Chrome/Default/History" :> HistoryC @@
             "Firefox/places.sqlite" :> HistoryA @@
             (SafariPath \o "History.db") :> HistoryEmpty)]

\* the Safari directory exists but holds no History.db
Machine3 ==
    [stat |-> (ChromePath :> "dir" @@ VivaldiPath :> "absent" @@
               FirefoxPath :> "absent" @@ SafariPath :> "dir"),
     walk |-> (ChromePath :> [dbs |-> <<"Chrome/Default/History">>, err |-> NULL] @@
               VivaldiPath :> NoWalk @@ FirefoxPath :> NoWalk),
     files |-> {},
     db |-> ("Chrome/Default/History" :> HistoryA)]

\* chrome and vivaldi, one profile each
Machine4 ==
    [stat |-> (ChromePath :> "dir" @@ VivaldiPath :> "dir" @@
               FirefoxPath :> "file" @@ SafariPath :> "absent"),
     walk |-> (ChromePath :> [dbs |-> <<"Chrome/Default/History">>, err |-> NULL] @@
               VivaldiPath :> [dbs |-> <<"Vivaldi/Default/History">>, err |-> NULL] @@
               FirefoxPath :> NoWalk),
     files |-> {},
     db |-> ("Chrome/Default/History" :> HistoryD @@
             "Vivaldi/Default/History" :> HistoryB)]

Machines == {Machine1, Machine2, Machine3, Machine4}

-----------------------------------------------------------------------------
(* Direct use of the store API: any sequence of calls *)

InitOn(machines) ==
    /\ urls = {}
    /\ urls_meta = {}
    /\ metaSeq = 0
    /\ visits = {}
    /\ visitSeq = 0
    /\ index = {}
    /\ calls = 0
    /\ last = [op |-> "none"]
    /\ fs \in machines
    /\ pc = "idle"
    /\ flags = [browser |-> "", latest |-> FALSE, buildIndex |-> TRUE]
    /\ extractors = <<>>
    /\ i = 1
    /\ errs = <<>>
    /\ exitCode = -1
    /\ runs = 0
    /\ tried = {}
    /\ lastImport = [op |-> "none"]
    /\ writers = <<>>

Init == InitOn(Machines)

CallInsertUrl(row) ==
    /\ calls < MaxCalls
    /\ urls' = InsertUrl(urls, row)
    /\ calls' = calls + 1
    /\ last' = [op |-> "InsertUrl", row |-> row,
                same |-> (last.op = "InsertUrl" /\ last.row = row),
                retitled |-> \E r \in urls : r.url = row.Url /\ r.title # row.Title]
    /\ UNCHANGED <<urls_meta, metaSeq, visits, visitSeq, index, fs, writers>>
    /\ UNCHANGED runVars

CallInsertUrlMeta(row) ==
    /\ calls < MaxCalls
    /\ LET r == InsertUrlMeta(urls_meta, metaSeq, row)
       IN  urls_meta' = r.tbl /\ metaSeq' = r.seq
    /\ calls' = calls + 1
    /\ last' = [op |-> "InsertUrlMeta", row |-> row]
    /\ UNCHANGED <<urls, visits, visitSeq, index, fs, writers>>
    /\ UNCHANGED runVars

CallInsertVisit(row) ==
    /\ calls < MaxCalls
    /\ LET r == InsertVisit(visits, visitSeq, row)
       IN  visits' = r.tbl /\ visitSeq' = r.seq
    /\ calls' = calls + 1
    /\ last' = [op |-> "InsertVisit", row |-> row]
    /\ UNCHANGED <<urls, urls_meta, metaSeq, index, fs, writers>>
    /\ UNCHANGED runVars

CallGetLatestTime(name) ==
    /\ calls < MaxCalls
    /\ calls' = calls + 1
    /\ last' = [op |-> "GetLatestTime", name |-> name,
                res |-> GetLatestTime(visits, name)]
    /\ UNCHANGED <<storeVars, index, fs, writers>>
    /\ UNCHANGED runVars

\* ids: the url_md5 values a caller asks for
IdLists == UNION {[1..n -> {HashMd5String(u) : u \in Urls}] : n \in 0..2}

CallUrlsById(ids) ==
    /\ calls < MaxCalls
    /\ calls' = calls + 1
    /\ \E res \in UrlsById(urls, ids) :
          last' = [op |-> "UrlsById", ids |-> ids, res |-> res]
    /\ UNCHANGED <<storeVars, index, fs, writers>>
    /\ UNCHANGED runVars

StoreNext ==
    \/ \E row \in UrlRows : CallInsertUrl(row)
    \/ \E row \in UrlMetaRows : CallInsertUrlMeta(row)
    \/ \E row \in VisitRows : CallInsertVisit(row)
    \/ \E name \in ExtractorNames : CallGetLatestTime(name)

StoreInit == Init /\ fs = Machine1

StoreSpec == StoreInit /\ [][StoreNext]_vars

\* the urls table written and read back
ReadNext ==
    \/ \E row \in UrlRows : CallInsertUrl(row)
    \/ \E ids \in IdLists : CallUrlsById(ids)

ReadSpec == StoreInit /\ [][ReadNext]_vars

-----------------------------------------------------------------------------
(* Properties of the store under any sequence of calls (StoreSpec) *)

SameVisitKey(v, w) == v.url_md5 = w.url_md5 /\ v.visit_time = w.visit_time

\* the stored rows an InsertVisit of row collides with
StoredFor(tbl, row) ==
    {v \in tbl : v.url_md5 = HashMd5String(row.Url) /\ v.visit_time = Unix(row.Datetime)}

\* C1: the visits table holds at most one row per (url_id, visit_time); an
\* InsertVisit whose URL and visit_time match a stored row leaves the table
\* unchanged whatever its extractor name (the stored row keeps its name), and
\* an InsertVisit with a new (URL, visit_time) adds exactly its row and keeps
\* every other row, so visits of one URL at different times from different
\* extractors all stay.
C1_VisitDedup ==
    [][ /\ \A v, w \in visits' : SameVisitKey(v, w) => v = w
        /\ last'.op = "InsertVisit" =>
             LET row == last'.row
             IN  IF StoredFor(visits, row) # {}
                 THEN visits' = visits
                 ELSE /\ visits \subseteq visits'
                      /\ Cardinality(visits' \ visits) = 1
                      /\ \A v \in visits' \ visits :
                            /\ v \in StoredFor(visits', row)
                            /\ v.extractor_name = row.ExtractorName ]_vars

\* C1 witness: the last InsertVisit was ignored against a row of another
\* extractor, and the same URL also holds a visit at another time from the
\* ignored extractor.
C1_Witness ==
    /\ last.op = "InsertVisit"
    /\ \E v \in StoredFor(visits, last.row) :
          /\ v.extractor_name # last.row.ExtractorName
          /\ \E w \in visits : /\ w.url_md5 = v.url_md5
                               /\ w.visit_time # v.visit_time
                               /\ w.extractor_name = last.row.ExtractorName

\* C6 (as claimed): an InsertUrl never lowers the stored last_visit of a URL.
C6_LastVisitNeverRegresses ==
    [][ \A r \in urls, r2 \in urls' : r.url = r2.url => r2.last_visit >= r.last_visit ]_vars

\* C7: the urls table holds one row per url value (and per url_md5), and an
\* InsertUrl repeating the input of the call just before it leaves the whole
\* store unchanged.
C7_UrlUpsertIdempotent ==
    [][ /\ \A r, r2 \in urls' : (r.url = r2.url \/ r.url_md5 = r2.url_md5) => r = r2
        /\ (last'.op = "InsertUrl" /\ last'.same)
              => /\ storeVars' = storeVars
                 /\ UrlDbRow(last.row) \in urls ]_vars

\* C7 witness: the last InsertUrl repeated the input of the InsertUrl before it,
\* and the URL has its single row, carrying that input.
C7_Witness ==
    /\ last.op = "InsertUrl"
    /\ last.same
    /\ {r \in urls : r.url = last.row.Url} = {UrlDbRow(last.row)}

\* C9: GetLatestTime(name) fails exactly when no stored visit carries name, and
\* otherwise returns the greatest visit_time among the rows carrying name.
C9_LatestTimeIsMaxOfExtractor ==
    last.op = "GetLatestTime" =>
        LET rows == {v \in visits : v.extractor_name = last.name}
        IN  /\ (last.res.err # NULL) <=> (rows = {})
            /\ rows = {} => last.res.t = Nil
            /\ rows # {} =>
                 /\ last.res.t # Nil
                 /\ \E v \in rows : v.visit_time = last.res.t[1]
                 /\ \A v \in rows : v.visit_time <= last.res.t[1]

\* C9 witness: GetLatestTime answered for a name with visits while another
\* extractor holds a later visit.
C9_Witness ==
    /\ last.op = "GetLatestTime"
    /\ last.res.err = NULL
    /\ \E v \in visits : v.extractor_name # last.name /\ v.visit_time > last.res.t[1]

\* C10 (as claimed): every visits row refers to a url_md5 that has a urls row.
C10_VisitHasUrl ==
    \A v \in visits : \E r \in urls : r.url_md5 = v.url_md5

-----------------------------------------------------------------------------
(* pkg/populate: PopulateAll, PopulateSinceTime, BuildIndex *)

\* the store writes of one import, in order: every URL the extractor lists is
\* upserted, then every listed visit later than since is inserted under the
\* extractor's name
ImportOps(x, src, since) ==
    LET us == [k \in 1..Len(src.urls) |->
                  [kind |-> "url",
                   row |-> [Url |-> src.urls[k].Url, Title |-> src.urls[k].Title,
                            Description |-> NULL, LastVisit |-> Nil]]]
        vs == SelectSeq(src.visits, LAMBDA v : Unix(v.Datetime) > Unix(since))
    IN  us \o [k \in 1..Len(vs) |->
                  [kind |-> "visit",
                   row |-> [Url |-> vs[k].Url, Datetime |-> vs[k].Datetime,
                            ExtractorName |-> x.Name]]]

ApplyOp(st, op) ==
    IF op.kind = "url"
    THEN [st EXCEPT !.urls = InsertUrl(st.urls, op.row)]
    ELSE LET r == InsertVisit(st.visits, st.visitSeq, op.row)
         IN  [st EXCEPT !.visits = r.tbl, !.visitSeq = r.seq]

\* the first n writes of ops applied to st
RECURSIVE ApplyOps(_, _, _)
ApplyOps(st, ops, n) ==
    IF n = 0 THEN st ELSE ApplyOp(ApplyOps(st, ops, n - 1), ops[n])

\* how an import can end: without error; SourceReadError from list_urls (nothing
\* written) or from list_visits (the URLs written); StoreWriteError at write k
\* (the writes before k stay committed)
Outcomes(src, ops) ==
    {[err |-> NULL, done |-> Len(ops)]}
    \cup {[err |-> "SourceReadError", done |-> 0],
          [err |-> "SourceReadError", done |-> Len(src.urls)]}
    \cup {[err |-> "StoreWriteError", done |-> k - 1] : k \in 1..Len(ops)}

\* full import
PopulateAll(st, x, src, outcome) ==
    ApplyOps(st, ImportOps(x, src, TimeUnix(0)), outcome.done)

\* incremental import
PopulateSinceTime(st, x, src, since, outcome) ==
    ApplyOps(st, ImportOps(x, src, since), outcome.done)

RECURSIVE SetToSeq(_)
SetToSeq(S) ==
    IF S = {} THEN <<>>
    ELSE LET e == CHOOSE e \in S : TRUE IN <<e>> \o SetToSeq(S \ {e})

\* unindexed_urls(): the UrlRecords without IndexMeta
UnindexedUrls(us, meta) ==
    SetToSeq({r \in us : ~\E m \in meta : m.url_md5 = r.url_md5})

\* the first n documents of todo added to the index and marked indexed at now
RECURSIVE IndexDocs(_, _, _, _)
IndexDocs(st, todo, n, now) ==
    IF n = 0 THEN st
    ELSE LET prev == IndexDocs(st, todo, n - 1, now)
             r == InsertUrlMeta(prev.meta, prev.seq,
                                [Url |-> todo[n].url, IndexedAt |-> Ptr(now)])
         IN  [index |-> prev.index \cup {todo[n].url_md5},
              meta |-> r.tbl, seq |-> r.seq]

-----------------------------------------------------------------------------
(* cmd/populate.go: populateCmd.Run *)

Selected(x) == flags.browser = "" \/ x.Name = flags.browser

\* flags parsed, BuildExtractorList, InitDb (CREATE ... IF NOT EXISTS)
RunStart(browser, latest, buildIndex) ==
    /\ pc \in {"idle", "exit"}
    /\ runs < MaxRuns
    /\ runs' = runs + 1
    /\ flags' = [browser |-> browser, latest |-> latest, buildIndex |-> buildIndex]
    /\ LET r == BuildExtractorList(fs)
       IN  IF r.err # NULL
           THEN /\ pc' = "exit"
                /\ exitCode' = 1
                /\ extractors' = <<>>
           ELSE /\ pc' = "loop"
                /\ exitCode' = -1
                /\ extractors' = r.list
    /\ i' = 1
    /\ errs' = <<>>
    /\ tried' = {}
    /\ last' = [op |-> "none"]
    /\ UNCHANGED <<storeVars, index, calls, fs, writers, lastImport>>

\* an iteration for an extractor that --browser deselects: continue
LoopSkip ==
    /\ pc = "loop"
    /\ i <= Len(extractors)
    /\ ~Selected(extractors[i])
    /\ i' = i + 1
    /\ UNCHANGED <<storeVars, index, calls, last, fs, writers, pc, flags, extractors, errs,
                   exitCode, runs, tried, lastImport>>

\* an iteration under --latest whose GetLatestTime fails: os.Exit(1)
LoopNoCursor ==
    /\ pc = "loop"
    /\ i <= Len(extractors)
    /\ Selected(extractors[i])
    /\ flags.latest
    /\ GetLatestTime(visits, extractors[i].Name).err # NULL
    /\ pc' = "exit"
    /\ exitCode' = 1
    /\ UNCHANGED <<storeVars, index, calls, last, fs, writers, flags, extractors, i, errs,
                   runs, tried, lastImport>>

\* an iteration that imports extractors[i], ending as outcome says
LoopImport ==
    /\ pc = "loop"
    /\ i <= Len(extractors)
    /\ Selected(extractors[i])
    /\ LET x == extractors[i]
           src == fs.db[x.HistoryDBPath]
           latestTime == GetLatestTime(visits, x.Name)
           st == [urls |-> urls, visits |-> visits, visitSeq |-> visitSeq]
       IN  /\ flags.latest => latestTime.err = NULL
           /\ LET since == IF flags.latest THEN latestTime.t[1] ELSE TimeUnix(0)
              IN  \E outcome \in Outcomes(src, ImportOps(x, src, since)) :
                    LET new == IF flags.latest
                               THEN PopulateSinceTime(st, x, src, since, outcome)
                               ELSE PopulateAll(st, x, src, outcome)
                    IN  /\ urls' = new.urls
                        /\ visits' = new.visits
                        /\ visitSeq' = new.visitSeq
                        /\ errs' = IF outcome.err # NULL
                                   THEN Append(errs, x.Name \o " error:")
                                   ELSE errs
                        /\ lastImport' =
                              [op |-> "import", run |-> runs, at |-> i, x |-> x,
                               latest |-> flags.latest, since |-> since,
                               err |-> outcome.err, done |-> outcome.done,
                               again |-> /\ lastImport.op = "import"
                                         /\ lastImport.x = x
                                         /\ lastImport.err = NULL
                                         /\ ~lastImport.latest
                                         /\ outcome.err = NULL
                                         /\ ~flags.latest]
    /\ tried' = tried \cup {i}
    /\ i' = i + 1
    /\ UNCHANGED <<urls_meta, metaSeq, index, calls, last, fs, writers, pc, flags, extractors,
                   exitCode, runs>>

\* LoopEnd with the check of errs left until after the index phase
LoopEndIndexFirst ==
    /\ pc = "loop"
    /\ i > Len(extractors)
    /\ IF flags.buildIndex
       THEN pc' = "index" /\ exitCode' = exitCode
       ELSE pc' = "exit" /\ exitCode' = (IF Len(errs) > 0 THEN 1 ELSE 0)
    /\ UNCHANGED <<storeVars, index, calls, last, fs, writers, flags, extractors, i,
                   errs, runs, tried, lastImport>>
\* after the loop: the collected errors are logged and the process exits 1, or
\* the index phase is entered, or the process ends
LoopEnd ==
    /\ pc = "loop"
    /\ i > Len(extractors)
    /\ IF Len(errs) > 0
       THEN pc' = "exit" /\ exitCode' = 1
       ELSE IF flags.buildIndex
            THEN pc' = "index" /\ exitCode' = exitCode
            ELSE pc' = "exit" /\ exitCode' = 0
    /\ UNCHANGED <<storeVars, index, calls, last, fs, writers, flags, extractors, i, errs,
                   runs, tried, lastImport>>

\* populate.BuildIndex: n documents indexed; n short of all of them is an error
RunBuildIndex ==
    /\ pc = "index"
    /\ LET todo == UnindexedUrls(urls, urls_meta)
       IN  \E n \in 0..Len(todo), now \in Times :
             LET new == IndexDocs([index |-> index, meta |-> urls_meta,
                                   seq |-> metaSeq], todo, n, now)
             IN  /\ index' = new.index
                 /\ urls_meta' = new.meta
                 /\ metaSeq' = new.seq
                 /\ exitCode' = IF n < Len(todo) THEN 1 ELSE 0
                 /\ last' = [op |-> "BuildIndex", n |-> n, todo |-> Len(todo)]
    /\ pc' = "exit"
    /\ UNCHANGED <<urls, visits, visitSeq, calls, fs, writers, flags, extractors, i,
                   errs, runs, tried, lastImport>>

\* the search command, run while no populate process is running
CallSearchUrls ==
    /\ pc \in {"idle", "exit"}
    /\ \E res \in SearchUrls(index, urls) :
          last' = [op |-> "SearchUrls", res |-> res]
    /\ UNCHANGED <<storeVars, index, calls, fs, writers>>
    /\ UNCHANGED runVars

Next ==
    \/ \E browser \in {""} \cup ExtractorNames, latest \in BOOLEAN,
          buildIndex \in BOOLEAN : RunStart(browser, latest, buildIndex)
    \/ LoopSkip
    \/ LoopNoCursor
    \/ LoopImport
    \/ LoopEnd
    \/ RunBuildIndex

Spec == Init /\ [][Next]_vars

\* populate with its default flags, and searches between the runs
SearchNext ==
    \/ RunStart("", FALSE, TRUE)
    \/ LoopImport
    \/ LoopEnd
    \/ RunBuildIndex
    \/ CallSearchUrls

SearchSpec == Init /\ [][SearchNext]_vars

-----------------------------------------------------------------------------
(* Properties of the populate command (Spec) *)

\* the history database of the last import
LastSrc == fs.db[lastImport.x.HistoryDBPath]

\* a step that imports extractors[i]
ImportStep == pc = "loop" /\ i \in tried' \ tried

\* the greatest visit_time stored under name (name has stored visits)
StoredMax(tbl, name) ==
    LET ts == {v.visit_time : v \in {w \in tbl : w.extractor_name = name}}
    IN  CHOOSE t \in ts : \A s \in ts : s <= t

\* C2 (as claimed): once an extractor's import has succeeded, every visit it
\* reported has exactly one row with its (url_id, visit_time).
C2_EveryReportedVisitStored ==
    (lastImport.op = "import" /\ lastImport.err = NULL) =>
        \A k \in 1..Len(LastSrc.visits) :
            Cardinality(StoredFor(visits, LastSrc.visits[k])) = 1

\* C3: an incremental import of an extractor whose stored maximum is T adds
\* only rows of that extractor for visits it returned with visit_time > T,
\* removes and duplicates nothing, and when it succeeds every returned visit
\* later than T has its row and every returned URL has its row in urls.
C3_IncrementalInsertsOnlyNewer ==
    [][ (ImportStep /\ flags.latest) =>
          LET x == extractors[i]
              src == fs.db[x.HistoryDBPath]
              T == StoredMax(visits, x.Name)
              added == visits' \ visits
          IN  /\ \E v \in visits : v.extractor_name = x.Name
              /\ visits \subseteq visits'
              /\ \A r \in added :
                    /\ r.visit_time > T
                    /\ r.extractor_name = x.Name
                    /\ \E k \in 1..Len(src.visits) : r \in StoredFor(visits', src.visits[k])
                    /\ \A v \in visits : ~SameVisitKey(v, r)
              /\ \A r, v \in visits' : SameVisitKey(v, r) => v = r
              /\ lastImport'.err = NULL =>
                    /\ \A k \in 1..Len(src.visits) :
                          Unix(src.visits[k].Datetime) > T
                              => StoredFor(visits', src.visits[k]) # {}
                    /\ \A k \in 1..Len(src.urls) :
                          \E r \in urls', j \in k..Len(src.urls) :
                              /\ r.url = src.urls[k].Url
                              /\ src.urls[j].Url = r.url
                              /\ r.title = src.urls[j].Title ]_vars

\* C3 witness: the last import was incremental and succeeded, its extractor
\* returned a visit at or before the cursor and a later one, and the newest
\* visits row is the later one, under the extractor's name.
C3_Witness ==
    /\ lastImport.op = "import"
    /\ lastImport.latest
    /\ lastImport.err = NULL
    /\ \E k, n \in 1..Len(LastSrc.visits) :
          /\ Unix(LastSrc.visits[k].Datetime) <= lastImport.since
          /\ Unix(LastSrc.visits[n].Datetime) > lastImport.since
          /\ \E r \in StoredFor(visits, LastSrc.visits[n]) :
                r.id = visitSeq /\ r.extractor_name = lastImport.x.Name

\* C4 (as claimed): under --latest an iteration for a selected extractor with
\* no stored visits imports it in full (cursor at the epoch origin) and the
\* loop goes on.
C4_NoPriorDataFallsBackToFull ==
    [][ ( /\ pc = "loop"
          /\ i <= Len(extractors)
          /\ Selected(extractors[i])
          /\ flags.latest
          /\ ~\E v \in visits : v.extractor_name = extractors[i].Name )
        => ( /\ pc' = "loop"
             /\ i' = i + 1
             /\ i \in tried'
             /\ lastImport'.since = TimeUnix(0) ) ]_vars

\* C5 (as claimed): when a run that obtained its extractor list has exited,
\* every selected extractor was attempted, and a run without index phase
\* exited non-zero exactly when a source failed.
C5_FailuresNeverStopTheRun ==
    (pc = "exit" /\ BuildExtractorList(fs).err = NULL) =>
        /\ \A k \in 1..Len(extractors) : Selected(extractors[k]) => k \in tried
        /\ Len(errs) > 0 => exitCode = 1
        /\ (Len(errs) = 0 /\ ~flags.buildIndex) => exitCode = 0

\* C8: a successful full import of an extractor that directly follows a
\* successful full import of the same extractor changes no urls row and no
\* visits row.
C8_FullImportTwice ==
    [][ ( /\ ImportStep
          /\ ~flags.latest
          /\ lastImport'.err = NULL
          /\ lastImport.op = "import"
          /\ ~lastImport.latest
          /\ lastImport.err = NULL
          /\ lastImport.x = lastImport'.x )
        => ( /\ urls' = urls
             /\ visits' = visits
             /\ visitSeq' = visitSeq ) ]_vars

\* C8 witness: the last import was the second of two successive successful
\* full imports of one extractor, whose URLs and visits are stored.
C8_Witness ==
    /\ lastImport.op = "import"
    /\ lastImport.again
    /\ Len(LastSrc.visits) > 1
    /\ \A k \in 1..Len(LastSrc.visits) :
          Cardinality(StoredFor(visits, LastSrc.visits[k])) = 1
    /\ \A k \in 1..Len(LastSrc.urls) :
          Cardinality({r \in urls : r.url = LastSrc.urls[k].Url}) = 1

-----------------------------------------------------------------------------
(* Properties of the read path: UrlsById (ReadSpec), SearchUrls (SearchSpec) *)

\* position of x in a sequence without repetitions
Pos(s, x) == CHOOSE k \in 1..Len(s) : s[k] = x

\* C11: SearchUrls returns the URL records in the relevance order of the id
\* sequence the index produced, whatever order the store returns the rows in.
C11_SearchKeepsHitOrder ==
    last.op = "SearchUrls" =>
        \A a, b \in 1..Len(last.res.Urls) :
            a < b => Pos(last.res.ids, last.res.Urls[a].UrlMd5)
                       < Pos(last.res.ids, last.res.Urls[b].UrlMd5)

\* the stored row an entity was read from
ReadFrom(e, r) ==
    /\ e.UrlMd5 = r.url_md5
    /\ e.Url = r.url
    /\ e.Title = r.title
    /\ e.Description = r.description
    /\ e.LastVisit = IF r.last_visit = 0 THEN Nil ELSE Ptr(r.last_visit)

\* C13: UrlsById returns exactly the stored rows whose url_md5 is among the
\* requested ids, each at most once and none for an id that is not stored;
\* with no requested id stored, or no id requested, it returns an empty list
\* and no error.
C13_UrlsByIdExact ==
    last.op = "UrlsById" =>
        LET xs == last.res.urls
            asked == {last.ids[k] : k \in 1..Len(last.ids)}
        IN  /\ last.res.err = NULL
            /\ \A k \in 1..Len(xs) :
                  /\ xs[k].UrlMd5 \in asked
                  /\ \E r \in urls : ReadFrom(xs[k], r)
            /\ \A r \in urls :
                  r.url_md5 \in asked => \E k \in 1..Len(xs) : ReadFrom(xs[k], r)
            /\ \A a, b \in 1..Len(xs) : xs[a].UrlMd5 = xs[b].UrlMd5 => a = b
            /\ (\A r \in urls : r.url_md5 \notin asked) => xs = <<>>

\* a call asking for a stored and an unstored id returned the one stored row
C13_Witness ==
    /\ last.op = "UrlsById"
    /\ Len(last.ids) = 2
    /\ last.ids[1] # last.ids[2]
    /\ Cardinality(urls) = 1
    /\ Len(last.res.urls) = 1
-----------------------------------------------------------------------------
(* Properties of the index phase (Spec) *)

\* a step of the index phase
BuildStep == pc = "index" /\ pc' = "exit"

UrlIds(us) == {r.url_md5 : r \in us}

\* C12: a pass of the indexer that completes without error leaves no URL
\* unindexed; that stays so while no URL is added; and a pass that starts with
\* no URL unindexed indexes zero documents and writes nothing.
C12_IndexPassIdempotent ==
    [][/\ (BuildStep /\ exitCode' = 0) =>
              /\ UnindexedUrls(urls', urls_meta') = <<>>
              /\ UrlIds(urls') \subseteq index'
       /\ (UnindexedUrls(urls, urls_meta) = <<>> /\ UrlIds(urls') = UrlIds(urls)) =>
              UnindexedUrls(urls', urls_meta') = <<>>
       /\ (BuildStep /\ UnindexedUrls(urls, urls_meta) = <<>>) =>
              /\ last'.n = 0
              /\ index' = index
              /\ urls_meta' = urls_meta
              /\ exitCode' = 0]_vars

\* a pass found every stored URL already indexed by an earlier pass and
\* indexed nothing
C12_Witness ==
    /\ last.op = "BuildIndex"
    /\ last.todo = 0
    /\ last.n = 0
    /\ urls # {}
    /\ index # {}
    /\ runs = 2
-----------------------------------------------------------------------------
(* The registry on every installation (RegistrySpec) *)

\* what a walk of a present browser directory can come back with
WalkResults ==
    {[dbs |-> <<>>, err |-> NULL],
     [dbs |-> <<"Default/History">>, err |-> NULL],
     [dbs |-> <<"Default/History", "Profile 1/History">>, err |-> NULL],
     [dbs |-> <<>>, err |-> "walk: permission denied"]}

\* every combination of absent, non-directory and present candidate paths;
\* only a present directory is walked or holds a History.db
Installations ==
    {m \in [stat : [{ChromePath, VivaldiPath, FirefoxPath, SafariPath} ->
                       {"dir", "file", "absent"}],
            walk : [{ChromePath, VivaldiPath, FirefoxPath} -> WalkResults \cup {NoWalk}],
            files : SUBSET {SafariPath \o "History.db"},
            db : {<<>>}] :
        /\ \A p \in DOMAIN m.walk : m.stat[p] # "dir" => m.walk[p] = NoWalk
        /\ m.files # {} => m.stat[SafariPath] = "dir"}

CallBuildExtractorList ==
    /\ last.op = "none"
    /\ LET r == BuildExtractorList(fs)
       IN  /\ extractors' = r.list
           /\ last' = [op |-> "BuildExtractorList", err |-> r.err]
    /\ UNCHANGED <<storeVars, index, calls, fs, writers, pc, flags, i, errs, exitCode, runs,
                   tried, lastImport>>

RegistryInit == InitOn(Installations)

RegistrySpec == RegistryInit /\ [][CallBuildExtractorList]_vars

\* the candidate paths of the machine that are directories
Present == {k \in 1..Len(pathsToTry) : fs.stat[pathsToTry[k].path] = "dir"}

\* the number of database files found under the present candidates before the k-th
RECURSIVE FoundBefore(_)
FoundBefore(k) ==
    IF k <= 1
    THEN 0
    ELSE FoundBefore(k - 1)
           + (IF k - 1 \in Present THEN Len(findDBs(fs, pathsToTry[k - 1]).dbs) ELSE 0)

\* C14: BuildExtractorList never fails because a candidate location is absent
\* or not a directory; it returns one extractor per database file found in the
\* present ones, and an error exactly when the search of a present directory
\* fails.
C14_AbsentLocationsSkipped ==
    last.op = "BuildExtractorList" =>
        /\ last.err # NULL <=>
              \E k \in Present : findDBs(fs, pathsToTry[k]).err # NULL
        /\ last.err = NULL =>
              /\ Len(extractors) = FoundBefore(Len(pathsToTry) + 1)
              /\ \A k \in Present :
                    LET dbs == findDBs(fs, pathsToTry[k]).dbs
                    IN  \A j \in 1..Len(dbs) :
                          extractors[FoundBefore(k) + j] =
                              [Name |-> pathsToTry[k].name, HistoryDBPath |-> dbs[j]]

\* a machine with an absent candidate and one that is no directory still got
\* its extractors
C14_Witness ==
    /\ last.op = "BuildExtractorList"
    /\ last.err = NULL
    /\ \E p \in DOMAIN fs.stat : fs.stat[p] = "absent"
    /\ \E p \in DOMAIN fs.stat : fs.stat[p] = "file"
    /\ Len(extractors) >= 2
-----------------------------------------------------------------------------
(* Processing order of the extractors in a sync run (Spec) *)

\* the range loop of populateCmd.Run over the extractors xs[1..n] in that
\* order, every import succeeding; under --latest a failing GetLatestTime ends
\* the process where it stands
RECURSIVE SyncRun(_, _, _, _)
SyncRun(st, xs, n, latest) ==
    IF n = 0 THEN [st EXCEPT !.exited = FALSE]
    ELSE LET prev == SyncRun(st, xs, n - 1, latest)
             x == xs[n]
             src == fs.db[x.HistoryDBPath]
             latestTime == GetLatestTime(prev.visits, x.Name)
         IN  IF prev.exited \/ (latest /\ latestTime.err # NULL)
             THEN [prev EXCEPT !.exited = TRUE]
             ELSE LET since == IF latest THEN latestTime.t[1] ELSE TimeUnix(0)
                      ok == [err |-> NULL, done |-> Len(ImportOps(x, src, since))]
                  IN  IF latest
                      THEN PopulateSinceTime(prev, x, src, since, ok)
                      ELSE PopulateAll(prev, x, src, ok)

\* the extractor list in every processing order
SyncOrders(list) ==
    {[k \in 1..Len(list) |-> list[p[k]]] : p \in Perms(1..Len(list))}

\* the store a sync run starts from
StoreNow == [urls |-> urls, visits |-> visits, visitSeq |-> visitSeq, exited |-> FALSE]

\* a whole sync run over every extractor, taken in the processing order o
SyncStep(o, latest) ==
    /\ runs < MaxRuns
    /\ BuildExtractorList(fs).err = NULL
    /\ runs' = runs + 1
    /\ LET new == SyncRun(StoreNow, o, Len(o), latest)
       IN  /\ urls' = new.urls
           /\ visits' = new.visits
           /\ visitSeq' = new.visitSeq
           /\ last' = [op |-> "sync", order |-> o, latest |-> latest,
                       exited |-> new.exited]
    /\ UNCHANGED <<urls_meta, metaSeq, index, calls, fs, writers, pc, flags, extractors, i,
                   errs, exitCode, tried, lastImport>>

SyncNext ==
    \/ \E o \in SyncOrders(BuildExtractorList(fs).list) : SyncStep(o, FALSE)
    \/ \E o \in SyncOrders(BuildExtractorList(fs).list) : SyncStep(o, TRUE)

SyncSpec == Init /\ [][SyncNext]_vars

NamedVisits(tbl) ==
    {[url_md5 |-> v.url_md5, visit_time |-> v.visit_time,
      extractor_name |-> v.extractor_name] : v \in tbl}

VisitKeys(tbl) == {<<v.url_md5, v.visit_time>> : v \in tbl}

\* extractor x lists a visit with the key of row v
Lists(x, v) ==
    \E k \in 1..Len(fs.db[x.HistoryDBPath].visits) :
        LET s == fs.db[x.HistoryDBPath].visits[k]
        IN  HashMd5String(s.Url) = v.url_md5 /\ Unix(s.Datetime) = v.visit_time

\* the same run taken in the order of BuildExtractorList
InListOrder(latest) ==
    LET list == BuildExtractorList(fs).list
    IN  SyncRun(StoreNow, list, Len(list), latest)

\* C15 as stated: the visit rows a sync run stores, extractor_name included,
\* do not depend on the order in which the extractors are processed.
C15_VisitRowsOrderIndependent ==
    [][runs' # runs =>
          NamedVisits(visits') = NamedVisits(InListOrder(last'.latest).visits)]_vars

\* C15 amended: the (url_md5, visit_time) keys a full sync run stores do not
\* depend on the order in which the extractors are processed; a row the run
\* adds carries the name of the first extractor in that order that lists it.
C15_VisitKeysOrderIndependent ==
    [][(runs' # runs /\ ~last'.latest) =>
          /\ VisitKeys(visits') = VisitKeys(InListOrder(FALSE).visits)
          /\ \A v \in visits' \ visits :
                LET o == last'.order
                    first == CHOOSE k \in 1..Len(o) :
                                /\ Lists(o[k], v)
                                /\ \A j \in 1..(k - 1) : ~Lists(o[j], v)
                IN  v.extractor_name = o[first].Name]_vars

\* a full sync run taken in another order than the list's stored a visit that
\* two extractors of different names list
C15_Witness ==
    /\ last.op = "sync"
    /\ ~last.latest
    /\ last.order # BuildExtractorList(fs).list
    /\ \E v \in visits : \E a, b \in 1..Len(last.order) :
          /\ last.order[a].Name # last.order[b].Name
          /\ Lists(last.order[a], v)
          /\ Lists(last.order[b], v)

-----------------------------------------------------------------------------
(* The incremental cursor over time (StoreSpec) *)

\* C16: once GetLatestTime returns a value for an extractor name, no later
\* call for that name returns a smaller value or fails with no rows, whatever
\* store operations come in between.
C16_CursorMonotonic ==
    [][\A name \in ExtractorNames :
          LET before == GetLatestTime(visits, name)
              after == GetLatestTime(visits', name)
          IN  before.err = NULL =>
                  /\ after.err = NULL
                  /\ after.t[1] >= before.t[1]]_vars

\* an extractor re-inserted the visit that is another name's latest, and the
\* other name's cursor still stands at it
C16_Witness ==
    /\ last.op = "InsertVisit"
    /\ \E v \in visits :
          /\ v.url_md5 = HashMd5String(last.row.Url)
          /\ v.visit_time = Unix(last.row.Datetime)
          /\ v.extractor_name # last.row.ExtractorName
          /\ GetLatestTime(visits, v.extractor_name).err = NULL
          /\ GetLatestTime(visits, v.extractor_name).t[1] = v.visit_time
          /\ GetLatestTime(visits, last.row.ExtractorName).err # NULL
-----------------------------------------------------------------------------
(* Extractors importing side by side (ParallelSpec): every store write is    *)
(* one SQL statement, and the statements of the writers interleave freely    *)

\* every extractor of the machine starts a full import of its own
StartWriters ==
    /\ writers = <<>>
    /\ BuildExtractorList(fs).err = NULL
    /\ Len(BuildExtractorList(fs).list) >= 2
    /\ writers' = [w \in 1..Len(BuildExtractorList(fs).list) |->
                      LET x == BuildExtractorList(fs).list[w]
                      IN  [x |-> x,
                           ops |-> ImportOps(x, fs.db[x.HistoryDBPath], TimeUnix(0)),
                           done |-> 0]]
    /\ UNCHANGED <<storeVars, index, calls, last, fs>>
    /\ UNCHANGED runVars

\* writer w executes its next statement
WriterStep(w) ==
    /\ writers[w].done < Len(writers[w].ops)
    /\ LET op == writers[w].ops[writers[w].done + 1]
           new == ApplyOp([urls |-> urls, visits |-> visits, visitSeq |-> visitSeq], op)
       IN  /\ urls' = new.urls
           /\ visits' = new.visits
           /\ visitSeq' = new.visitSeq
    /\ writers' = [writers EXCEPT ![w].done = @ + 1]
    /\ UNCHANGED <<urls_meta, metaSeq, index, calls, last, fs>>
    /\ UNCHANGED runVars

ParallelNext ==
    \/ StartWriters
    \/ \E w \in DOMAIN writers : WriterStep(w)

ParallelSpec == Init /\ [][ParallelNext]_vars

\* the statements writer w has executed
Executed(w) == {writers[w].ops[k] : k \in 1..writers[w].done}

\* C17: under any interleaving of the writers' statements each visit inserted,
\* by however many writers, has exactly one row for its (URL, time), and each
\* URL upserted has exactly one row.
C17_UniqueUnderInterleaving ==
    \A w \in DOMAIN writers : \A op \in Executed(w) :
        IF op.kind = "visit"
        THEN Cardinality({v \in visits :
                            /\ v.url_md5 = HashMd5String(op.row.Url)
                            /\ v.visit_time = Unix(op.row.Datetime)}) = 1
        ELSE Cardinality({u \in urls : u.url = op.row.Url}) = 1

\* two writers, both still at work, have each inserted the same visit and
\* upserted the same URL
C17_Witness ==
    \E a, b \in DOMAIN writers :
        /\ a # b
        /\ writers[a].done < Len(writers[a].ops)
        /\ writers[b].done < Len(writers[b].ops)
        /\ \E p \in Executed(a), q \in Executed(b) :
              p.kind = "visit" /\ q.kind = "visit" /\ p.row.Url = q.row.Url
              /\ p.row.Datetime = q.row.Datetime
        /\ \E p \in Executed(a), q \in Executed(b) :
              p.kind = "url" /\ q.kind = "url" /\ p.row.Url = q.row.Url
-----------------------------------------------------------------------------
(* pkg/extractors: ChromiumExtractor reading a History database              *)
(*                                                                           *)
(* A Chromium visit_time counts microseconds since 1601-01-01.  The value    *)
(* ChromiumTime(s, us) stands for second s of the Unix epoch plus us         *)
(* microseconds, stored in that form; a NULL visit_time is Nil.              *)

ChromiumTime(s, us) == <<s, us>>

\* the text SQLite's datetime() gives for a second of the first minute of the
\* Unix epoch
DatetimeText(s) ==
    IF s < 10 THEN "1970-01-01 00:00:0" \o ToString(s)
    ELSE "1970-01-01 00:00:" \o ToString(s)

\* datetime(visit_time / 1e6 + strftime('%s', '1601-01-01'), 'unixepoch'):
\* the text of the second the instant falls in, NULL for NULL
VisitDate(visit_time) ==
    IF visit_time = Nil THEN NULL ELSE DatetimeText(visit_time[1])

\* util.ParseSQLiteDatetime on a well-formed datetime text
ParseSQLiteDatetime(ts) == TimeUnix(CHOOSE s \in 0..59 : DatetimeText(s) = ts)

\* the rows of chromiumUrls: SELECT url, title FROM urls
chromiumUrls(db) == [k \in 1..Len(db.urls) |-> [url |-> db.urls[k].url, title |-> db.urls[k].title]]

\* the rows of chromiumVisits: visits INNER JOIN urls ON v.url = u.id
chromiumVisits(db) ==
    LET joined == SelectSeq(db.visits,
                            LAMBDA v : \E k \in 1..Len(db.urls) : db.urls[k].id = v.url)
    IN  [k \in 1..Len(joined) |->
            [visit_date |-> VisitDate(joined[k].visit_time),
             url |-> db.urls[CHOOSE j \in 1..Len(db.urls) :
                                 db.urls[j].id = joined[k].url].url]]

NoFault == [at |-> "none", row |-> 0]

\* what can go wrong while GetAllUrls reads n rows: the query; the Scan of
\* row k; the iteration on the way to row k (rows.Err)
UrlFaults(n) ==
    {NoFault, [at |-> "query", row |-> 0]}
    \cup {[at |-> "scan", row |-> k] : k \in 1..n}
    \cup {[at |-> "rows", row |-> k] : k \in 1..(n + 1)}

\* GetAllVisits: the datetime parse of row k as well
VisitFaults(n) == UrlFaults(n) \cup {[at |-> "parse", row |-> k] : k \in 1..n}

\* the for rows.Next() loop of GetAllUrls from row k on: the slice built and
\* the error at the point the function returns
RECURSIVE UrlsLoop(_, _, _, _)
UrlsLoop(rows, k, urlsRead, fault) ==
    IF fault.at = "rows" /\ fault.row = k
    THEN [list |-> urlsRead, err |-> "row error"]
    ELSE IF k > Len(rows)
    THEN [list |-> urlsRead, err |-> NULL]
    ELSE IF fault.at = "scan" /\ fault.row = k
    THEN [list |-> urlsRead, err |-> "individual row error"]
    ELSE UrlsLoop(rows, k + 1,
                  Append(urlsRead, SrcUrl(rows[k].url, rows[k].title)), fault)

\* GetAllUrls returning what it has read along with the error
GetAllUrlsPartial(db, fault) ==
    IF fault.at = "query"
    THEN [list |-> <<>>, err |-> "query error"]
    ELSE UrlsLoop(chromiumUrls(db), 1, <<>>, fault)

\* ChromiumExtractor.GetAllUrls
GetAllUrls(db, fault) ==
    IF fault.at = "query"
    THEN [list |-> <<>>, err |-> "query error"]
    ELSE LET r == UrlsLoop(chromiumUrls(db), 1, <<>>, fault)
         IN  IF r.err # NULL THEN [list |-> <<>>, err |-> r.err] ELSE r

\* the for rows.Next() loop of GetAllVisits from row k on; Scan into a string
\* fails on a NULL visit_date
RECURSIVE VisitsLoop(_, _, _, _)
VisitsLoop(rows, k, visitsRead, fault) ==
    IF fault.at = "rows" /\ fault.row = k
    THEN [list |-> visitsRead, err |-> "row error"]
    ELSE IF k > Len(rows)
    THEN [list |-> visitsRead, err |-> NULL]
    ELSE IF (fault.at = "scan" /\ fault.row = k) \/ rows[k].visit_date = NULL
    THEN [list |-> visitsRead, err |-> "individual row error"]
    ELSE IF fault.at = "parse" /\ fault.row = k
    THEN [list |-> visitsRead, err |-> "datetime parsing error"]
    ELSE VisitsLoop(rows, k + 1,
                    Append(visitsRead,
                           SrcVisit(rows[k].url, ParseSQLiteDatetime(rows[k].visit_date))),
                    fault)

\* GetAllVisits returning what it has read along with the error
GetAllVisitsPartial(db, fault) ==
    IF fault.at = "query"
    THEN [list |-> <<>>, err |-> "query error"]
    ELSE VisitsLoop(chromiumVisits(db), 1, <<>>, fault)

\* ChromiumExtractor.GetAllVisits
GetAllVisits(db, fault) ==
    IF fault.at = "query"
    THEN [list |-> <<>>, err |-> "query error"]
    ELSE LET r == VisitsLoop(chromiumVisits(db), 1, <<>>, fault)
         IN  IF r.err # NULL THEN [list |-> <<>>, err |-> r.err] ELSE r

\* History databases: up to two urls rows and up to two visits rows
ChromiumUrlRows == [id : 1..2, url : Urls, title : Titles]
ChromiumVisitRows ==
    [url : 1..2, visit_time : {Nil} \cup {ChromiumTime(s, us) : s \in Times, us \in {0, 1}}]
ChromiumDbs ==
    {db \in [urls : UNION {[1..n -> ChromiumUrlRows] : n \in 0..2},
             visits : UNION {[1..n -> ChromiumVisitRows] : n \in 0..2}] :
        \A a, b \in 1..Len(db.urls) :
            (db.urls[a].id = db.urls[b].id \/ db.urls[a].url = db.urls[b].url) => a = b}

CallGetAllUrls(db, fault) ==
    /\ last.op = "none"
    /\ last' = [op |-> "GetAllUrls", db |-> db, fault |-> fault,
                res |-> GetAllUrls(db, fault)]
    /\ UNCHANGED <<storeVars, index, calls, fs, writers>>
    /\ UNCHANGED runVars

CallGetAllVisits(db, fault) ==
    /\ last.op = "none"
    /\ last' = [op |-> "GetAllVisits", db |-> db, fault |-> fault,
                res |-> GetAllVisits(db, fault)]
    /\ UNCHANGED <<storeVars, index, calls, fs, writers>>
    /\ UNCHANGED runVars

\* one call on some History database, hit by some fault or none
ExtractNext ==
    \/ /\ last.op = "none"
       /\ \E db \in ChromiumDbs : \E fault \in UrlFaults(Len(chromiumUrls(db))) :
             CallGetAllUrls(db, fault)
    \/ /\ last.op = "none"
       /\ \E db \in ChromiumDbs : \E fault \in VisitFaults(Len(chromiumVisits(db))) :
             CallGetAllVisits(db, fault)

ExtractSpec == StoreInit /\ [][ExtractNext]_vars

\* C18: GetAllUrls and GetAllVisits are all-or-nothing: when the query, the
\* scan of any row, a timestamp conversion or the row iteration fails, the
\* error is returned with no records; otherwise every row is returned.
C18_ListAllOrNothing ==
    /\ last.op = "GetAllUrls" =>
          /\ last.res.err # NULL <=> last.fault # NoFault
          /\ last.res.err # NULL => last.res.list = <<>>
          /\ last.res.err = NULL =>
                last.res.list = [k \in 1..Len(last.db.urls) |->
                                    SrcUrl(last.db.urls[k].url, last.db.urls[k].title)]
    /\ last.op = "GetAllVisits" =>
          LET rows == chromiumVisits(last.db)
          IN  /\ last.res.err # NULL <=>
                    \/ last.fault # NoFault
                    \/ \E k \in 1..Len(rows) : rows[k].visit_date = NULL
              /\ last.res.err # NULL => last.res.list = <<>>
              /\ last.res.err = NULL =>
                    /\ Len(last.res.list) = Len(rows)
                    /\ \A k \in 1..Len(rows) :
                          /\ last.res.list[k].Url = rows[k].url
                          /\ DatetimeText(Unix(last.res.list[k].Datetime))
                                = rows[k].visit_date

\* the timestamp of the second of two visits failed to parse: the first,
\* already read, is not returned
C18_Witness ==
    /\ last.op = "GetAllVisits"
    /\ last.fault = [at |-> "parse", row |-> 2]
    /\ last.res.err # NULL
    /\ last.res.list = <<>>
-----------------------------------------------------------------------------
(* The index phase within a run (Spec) *)

\* C19: the index phase starts only after every selected extractor has been
\* processed, none failed and --build-index is set; a run in which a source
\* failed exits 1 from the end of the loop; and the index and the index
\* metadata are written in the index phase only.
C19_IndexOnlyAfterCleanSync ==
    [][/\ (pc # "index" /\ pc' = "index") =>
              /\ pc = "loop"
              /\ i > Len(extractors)
              /\ \A k \in 1..Len(extractors) : Selected(extractors[k]) => k \in tried
              /\ errs = <<>>
              /\ flags.buildIndex
       /\ (pc = "loop" /\ i > Len(extractors) /\ errs # <<>>) =>
              pc' = "exit" /\ exitCode' = 1
       /\ (index' # index \/ urls_meta' # urls_meta) => pc = "index"]_vars

\* a run with --build-index in which one source failed and another was
\* imported has exited 1, its URLs unindexed
C19_Witness ==
    /\ pc = "exit"
    /\ exitCode = 1
    /\ flags.buildIndex
    /\ errs # <<>>
    /\ Len(errs) < Cardinality(tried)
    /\ i > Len(extractors)
    /\ index = {}
    /\ UnindexedUrls(urls, urls_meta) # <<>>
-----------------------------------------------------------------------------
(* What InsertUrl leaves alone (StoreSpec) *)

UnindexedIds(us, meta) ==
    LET todo == UnindexedUrls(us, meta)
    IN  {todo[k].url_md5 : k \in 1..Len(todo)}

\* C20: InsertUrl changes the urls row of its URL only: the visits rows, the
\* urls_meta rows and the urls rows of every other URL stay as they were, and
\* no URL that was indexed becomes unindexed.
C20_UrlUpsertFrame ==
    [][(calls' # calls /\ last'.op = "InsertUrl") =>
          LET md5 == HashMd5String(last'.row.Url)
          IN  /\ visits' = visits
              /\ visitSeq' = visitSeq
              /\ urls_meta' = urls_meta
              /\ metaSeq' = metaSeq
              /\ {r \in urls' : r.url_md5 # md5} = {r \in urls : r.url_md5 # md5}
              /\ Cardinality({r \in urls' : r.url_md5 = md5}) = 1
              /\ UnindexedIds(urls', urls_meta')
                    \subseteq UnindexedIds(urls, urls_meta) \cup ({md5} \ UrlIds(urls))]_vars

\* the title of a stored and indexed URL was overwritten, and the URL is
\* still indexed
C20_Witness ==
    /\ last.op = "InsertUrl"
    /\ last.retitled
    /\ \E m \in urls_meta : m.url_md5 = HashMd5String(last.row.Url)
    /\ UnindexedIds(urls, urls_meta) = {}
====
